---- MODULE Spec2Model ----
(***************************************************************************)
(* A model of the 6502 CPU core of nes-rust: the register file and status  *)
(* flags (src/src/cpu/registers.rs), the execution engine, ALU and         *)
(* addressing resolver (src/src/cpu/cpu.rs), the flat memory              *)
(* (src/src/memory.rs) and the textual instruction decoder                 *)
(* (src/src/cpu/instructions.rs).                                          *)
(*                                                                         *)
(* The machine is a record                                                 *)
(*   [registers, flags_register, memory, panicked]                         *)
(* holding the three fields of struct CPU plus a mark that the call has    *)
(* panicked.  Every Rust method is an operator from a machine to a         *)
(* machine, written in the order of the method's statements.               *)
(*                                                                         *)
(* Rust's +, - on u8/u16 panic on overflow when the build has overflow     *)
(* checks (debug profile) and wrap when it has not (release profile).      *)
(* Each operator that can overflow takes the build's setting as the        *)
(* parameter oc, and the actions draw it from BOOLEAN.                     *)
(***************************************************************************)
EXTENDS Integers, Sequences, FiniteSets, TLC

VARIABLES cpu, last, before, last2, before2, steps, text, decoded, returned

vars == <<cpu, last, before, last2, before2, steps, text, decoded, returned>>

\* u8 and u16
Byte == 0..255
Word == 0..65535

\* (v >> n) & 0b1, for v of any sign (an arithmetic shift on i16)
Bit(v, n) == (v \div (2 ^ n)) % 2

\* (v as i8) as i16
as_i8(v) == IF v >= 128 THEN v - 256 ELSE v

\* a & b, a | b, a ^ b on bytes
RECURSIVE BitwiseAnd(_, _, _)
BitwiseAnd(a, b, n) ==
    IF n = 0 THEN 0
    ELSE (a % 2) * (b % 2) + 2 * BitwiseAnd(a \div 2, b \div 2, n - 1)

RECURSIVE BitwiseOr(_, _, _)
BitwiseOr(a, b, n) ==
    IF n = 0 THEN 0
    ELSE (IF (a % 2) + (b % 2) > 0 THEN 1 ELSE 0)
         + 2 * BitwiseOr(a \div 2, b \div 2, n - 1)

RECURSIVE BitwiseXor(_, _, _)
BitwiseXor(a, b, n) ==
    IF n = 0 THEN 0
    ELSE (((a % 2) + (b % 2)) % 2) + 2 * BitwiseXor(a \div 2, b \div 2, n - 1)

-----------------------------------------------------------------------------
(* registers.rs: Registers                                                 *)

Registers_new == [a |-> 0, x |-> 0, y |-> 0, pc |-> 0, s |-> 0, p |-> 0]

get_register(m, reg) ==
    CASE reg = "A" -> m.registers.a
      [] reg = "X" -> m.registers.x
      [] reg = "Y" -> m.registers.y
      [] reg = "S" -> m.registers.s
      [] reg = "P" -> m.registers.p

set_register(m, reg, value) ==
    CASE reg = "A" -> [m EXCEPT !.registers.a = value]
      [] reg = "X" -> [m EXCEPT !.registers.x = value]
      [] reg = "Y" -> [m EXCEPT !.registers.y = value]
      [] reg = "S" -> [m EXCEPT !.registers.s = value]
      [] reg = "P" -> [m EXCEPT !.registers.p = value]

get_pc(m) == m.registers.pc

set_pc(m, pc) == [m EXCEPT !.registers.pc = pc]

\* a panic: the call unwinds and leaves what it has written so far
panic(m) == [m EXCEPT !.panicked = TRUE]

\* self.pc += change
change_pc(m, change, oc) ==
    LET sum == m.registers.pc + change
    IN  IF sum > 65535
        THEN IF oc THEN panic(m) ELSE [m EXCEPT !.registers.pc = sum % 65536]
        ELSE [m EXCEPT !.registers.pc = sum]

\* Registers::push_stack and Registers::pop_stack are called by CPU::push and
\* CPU::pop and defined nowhere in the sources: S is decremented on push and
\* incremented on pop, wrapping modulo 256.
push_stack(m) == [m EXCEPT !.registers.s = (m.registers.s + 255) % 256]

pop_stack(m) == [m EXCEPT !.registers.s = (m.registers.s + 1) % 256]

-----------------------------------------------------------------------------
(* registers.rs: FlagsRegister                                             *)

NEGATIVE_FLAG_BYTE_POSITION == 7
OVERFLOW_FLAG_BYTE_POSITION == 6
DECIMAL_FLAG_BYTE_POSITION == 3
INTERRUPT_FLAG_BYTE_POSITION == 2
ZERO_FLAG_BYTE_POSITION == 1
CARRY_FLAG_BYTE_POSITION == 0

FlagsRegister_new ==
    [negative |-> FALSE, overflow |-> FALSE, decimal |-> FALSE,
     interrupt |-> FALSE, zero |-> FALSE, carry |-> FALSE]

AllFlags ==
    [negative : BOOLEAN, overflow : BOOLEAN, decimal : BOOLEAN,
     interrupt : BOOLEAN, zero : BOOLEAN, carry : BOOLEAN]

set_negative(m, value) == [m EXCEPT !.flags_register.negative = value]
set_overflow(m, value) == [m EXCEPT !.flags_register.overflow = value]
set_decimal(m, value) == [m EXCEPT !.flags_register.decimal = value]
set_interrupt_writes_decimal(m, value) == [m EXCEPT !.flags_register.decimal = value]
set_interrupt(m, value) == [m EXCEPT !.flags_register.interrupt = value]
set_zero(m, value) == [m EXCEPT !.flags_register.zero = value]
set_carry(m, value) == [m EXCEPT !.flags_register.carry = value]

\* impl From<FlagsRegister> for u8: the shifted bits are disjoint, so | is +
u8_from_FlagsRegister(flag) ==
      (IF flag.negative THEN 1 ELSE 0) * (2 ^ NEGATIVE_FLAG_BYTE_POSITION)
    + (IF flag.overflow THEN 1 ELSE 0) * (2 ^ OVERFLOW_FLAG_BYTE_POSITION)
    + (IF flag.decimal THEN 1 ELSE 0) * (2 ^ DECIMAL_FLAG_BYTE_POSITION)
    + (IF flag.interrupt THEN 1 ELSE 0) * (2 ^ INTERRUPT_FLAG_BYTE_POSITION)
    + (IF flag.zero THEN 1 ELSE 0) * (2 ^ ZERO_FLAG_BYTE_POSITION)
    + (IF flag.carry THEN 1 ELSE 0) * (2 ^ CARRY_FLAG_BYTE_POSITION)

\* impl From<u8> for FlagsRegister: interrupt and carry are read at the
\* overflow position, as the source has it
FlagsRegister_from_u8(byte) ==
    [negative  |-> Bit(byte, NEGATIVE_FLAG_BYTE_POSITION) # 0,
     overflow  |-> Bit(byte, OVERFLOW_FLAG_BYTE_POSITION) # 0,
     decimal   |-> Bit(byte, DECIMAL_FLAG_BYTE_POSITION) # 0,
     interrupt |-> Bit(byte, OVERFLOW_FLAG_BYTE_POSITION) # 0,
     zero      |-> Bit(byte, ZERO_FLAG_BYTE_POSITION) # 0,
     carry     |-> Bit(byte, OVERFLOW_FLAG_BYTE_POSITION) # 0]

\* FlagsRegister::load is called by PLP and defined nowhere in the sources:
\* it unpacks the byte into the status flags.
FlagsRegister_load(m, value) ==
    [m EXCEPT !.flags_register = FlagsRegister_from_u8(value)]

-----------------------------------------------------------------------------
(* memory.rs: Memory.  The 65,536 cells start at 0; the model keeps the    *)
(* cells that are not 0, as a function from their addresses.               *)

Memory_new == [l \in {} |-> 0]

get_byte(memory, location) ==
    IF location \in DOMAIN memory THEN memory[location] ELSE 0

set_byte(memory, location, value) ==
    IF value = 0
    THEN [l \in (DOMAIN memory) \ {location} |-> memory[l]]
    ELSE [l \in (DOMAIN memory) \cup {location} |->
            IF l = location THEN value ELSE memory[l]]

mem_set(m, location, value) ==
    [m EXCEPT !.memory = set_byte(m.memory, location, value)]

-----------------------------------------------------------------------------
(* instructions.rs: AddressingMode and Instruction                         *)

Implied == [kind |-> "Implied", operand |-> 0, register |-> 0]
Accumulator == [kind |-> "Accumulator", operand |-> 0, register |-> 0]
Immediate(v) == [kind |-> "Immediate", operand |-> v, register |-> 0]
ZeroPage(v, r) == [kind |-> "ZeroPage", operand |-> v, register |-> r]
Relative(v) == [kind |-> "Relative", operand |-> v, register |-> 0]
Absolute(w, r) == [kind |-> "Absolute", operand |-> w, register |-> r]
Indirect(w) == [kind |-> "Indirect", operand |-> w, register |-> 0]
IndexedIndirect(v) == [kind |-> "IndexedIndirect", operand |-> v, register |-> 0]
IndirectIndexed(v) == [kind |-> "IndirectIndexed", operand |-> v, register |-> 0]

Instruction(name, mode) == [instruction |-> name, address |-> mode]

-----------------------------------------------------------------------------
(* instructions.rs: InstructionReader                                      *)

instruction_opcodes ==
    <<
       "69", "65", "75", "6D", "7D", "79", "61", "71", "29", "25", "35", "2D", "3D", "39", "21", "31",
       "0A", "06", "16", "0E", "1E", "90", "B0", "F0", "24", "2C", "30", "D0", "10", "00", "50", "70",
       "18", "D8", "58", "B8", "C9", "C5", "D5", "CD", "DD", "D9", "C1", "D1", "E0", "E4", "EC", "C0",
       "C4", "CC", "C6", "D6", "CE", "DE", "CA", "88", "49", "45", "55", "4D", "5D", "59", "41", "51",
       "E6", "F6", "EE", "FE", "E8", "C8", "4C", "6C", "20", "A9", "A5", "B5", "AD", "BD", "B9", "A1",
       "B1", "A2", "A6", "B6", "AE", "BE", "A0", "A4", "B4", "AC", "BC", "4A", "46", "56", "4E", "5E",
       "EA", "09", "05", "15", "0D", "1D", "19", "01", "11", "48", "08", "68", "28", "2A", "26", "36",
       "2E", "3E", "6A", "66", "76", "6E", "7E", "40", "60", "E9", "E5", "F5", "ED", "FD", "F9", "E1",
       "F1", "38", "F8", "78", "85", "95", "8D", "9D", "99", "81", "91", "86", "96", "8E", "84", "94",
       "8C", "AA", "A8", "BA", "8A", "9A", "98"
    >>

instruction_names_and_modes ==
    <<
       <<"ADC", "Immediate">>, <<"ADC", "ZeroPage">>, <<"ADC", "ZeroPage,X">>, <<"ADC", "Absolute">>,
       <<"ADC", "Absolute,X">>, <<"ADC", "Absolute,Y">>, <<"ADC", "(Indirect,X)">>, <<"ADC", "(Indirect),Y">>,
       <<"AND", "Immediate">>, <<"AND", "ZeroPage">>, <<"AND", "ZeroPage,X">>, <<"AND", "Absolute">>,
       <<"AND", "Absolute,X">>, <<"AND", "Absolute,Y">>, <<"AND", "(Indirect,X)">>, <<"AND", "(Indirect),Y">>,
       <<"ASL", "Accumulator">>, <<"ASL", "ZeroPage">>, <<"ASL", "ZeroPage,X">>, <<"ASL", "Absolute">>,
       <<"ASL", "Absolute,X">>, <<"BCC", "Relative">>, <<"BCS", "Relative">>, <<"BEQ", "Relative">>,
       <<"BIT", "ZeroPage">>, <<"BIT", "Absolute">>, <<"BMI", "Relative">>, <<"BNE", "Relative">>,
       <<"BPL", "Relative">>, <<"BRK", "Implied">>, <<"BVC", "Relative">>, <<"BVS", "Relative">>,
       <<"CLC", "Implied">>, <<"CLD", "Implied">>, <<"CLI", "Implied">>, <<"CLV", "Implied">>,
       <<"CMP", "Immediate">>, <<"CMP", "ZeroPage">>, <<"CMP", "ZeroPage,X">>, <<"CMP", "Absolute">>,
       <<"CMP", "Absolute,X">>, <<"CMP", "Absolute,Y">>, <<"CMP", "(Indirect,X)">>, <<"CMP", "(Indirect),Y">>,
       <<"CPX", "Immediate">>, <<"CPX", "ZeroPage">>, <<"CPX", "Absolute">>, <<"CPY", "Immediate">>,
       <<"CPY", "ZeroPage">>, <<"CPY", "Absolute">>, <<"DEC", "ZeroPage">>, <<"DEC", "ZeroPage,X">>,
       <<"DEC", "Absolute">>, <<"DEC", "Absolute,X">>, <<"DEX", "Implied">>, <<"DEY", "Implied">>,
       <<"EOR", "Immediate">>, <<"EOR", "ZeroPage">>, <<"EOR", "ZeroPage,X">>, <<"EOR", "Absolute">>,
       <<"EOR", "Absolute,X">>, <<"EOR", "Absolute,Y">>, <<"EOR", "(Indirect,X)">>, <<"EOR", "(Indirect),Y">>,
       <<"INC", "ZeroPage">>, <<"INC", "ZeroPage,X">>, <<"INC", "Absolute">>, <<"INC", "Absolute,X">>,
       <<"INX", "Implied">>, <<"INY", "Implied">>, <<"JMP", "Absolute">>, <<"JMP", "Indirect">>,
       <<"JSR", "Absolute">>, <<"LDA", "Immediate">>, <<"LDA", "ZeroPage">>, <<"LDA", "ZeroPage,X">>,
       <<"LDA", "Absolute">>, <<"LDA", "Absolute,X">>, <<"LDA", "Absolute,Y">>, <<"LDA", "(Indirect,X)">>,
       <<"LDA", "(Indirect),Y">>, <<"LDX", "Immediate">>, <<"LDX", "ZeroPage">>, <<"LDX", "ZeroPage,Y">>,
       <<"LDX", "Absolute">>, <<"LDX", "Absolute,Y">>, <<"LDY", "Immediate">>, <<"LDY", "ZeroPage">>,
       <<"LDY", "ZeroPage,X">>, <<"LDY", "Absolute">>, <<"LDY", "Absolute,X">>, <<"LSR", "Accumulator">>,
       <<"LSR", "ZeroPage">>, <<"LSR", "ZeroPage,X">>, <<"LSR", "Absolute">>, <<"LSR", "Absolute,X">>,
       <<"NOP", "Implied">>, <<"ORA", "Immediate">>, <<"ORA", "ZeroPage">>, <<"ORA", "ZeroPage,X">>,
       <<"ORA", "Absolute">>, <<"ORA", "Absolute,X">>, <<"ORA", "Absolute,Y">>, <<"ORA", "(Indirect,X)">>,
       <<"ORA", "(Indirect),Y">>, <<"PHA", "Implied">>, <<"PHP", "Implied">>, <<"PLA", "Implied">>,
       <<"PLP", "Implied">>, <<"ROL", "Accumulator">>, <<"ROL", "ZeroPage">>, <<"ROL", "ZeroPage,X">>,
       <<"ROL", "Absolute">>, <<"ROL", "Absolute,X">>, <<"ROR", "Accumulator">>, <<"ROR", "ZeroPage">>,
       <<"ROR", "ZeroPage,X">>, <<"ROR", "Absolute">>, <<"ROR", "Absolute,X">>, <<"RTI", "Implied">>,
       <<"RTS", "Implied">>, <<"SBC", "Immediate">>, <<"SBC", "ZeroPage">>, <<"SBC", "ZeroPage,X">>,
       <<"SBC", "Absolute">>, <<"SBC", "Absolute,X">>, <<"SBC", "Absolute,Y">>, <<"SBC", "(Indirect,X)">>,
       <<"SBC", "(Indirect),Y">>, <<"SEC", "Implied">>, <<"SED", "Implied">>, <<"SEI", "Implied">>,
       <<"STA", "ZeroPage">>, <<"STA", "ZeroPage,X">>, <<"STA", "Absolute">>, <<"STA", "Absolute,X">>,
       <<"STA", "Absolute,Y">>, <<"STA", "(Indirect,X)">>, <<"STA", "(Indirect),Y">>, <<"STX", "ZeroPage">>,
       <<"STX", "ZeroPage,Y">>, <<"STX", "Absolute">>, <<"STY", "ZeroPage">>, <<"STY", "ZeroPage,X">>,
       <<"STY", "Absolute">>, <<"TAX", "Implied">>, <<"TAY", "Implied">>, <<"TSX", "Implied">>,
       <<"TXA", "Implied">>, <<"TXS", "Implied">>, <<"TYA", "Implied">>
    >>

\* instruction_opcodes.into_iter().zip(instruction_names_and_modes).collect()
instruction_map ==
    [opcode \in {instruction_opcodes[i] : i \in DOMAIN instruction_opcodes} |->
        instruction_names_and_modes[
            CHOOSE i \in DOMAIN instruction_opcodes : instruction_opcodes[i] = opcode]]

mode_to_enum_immediate_of_op2(mode, op1, op2) ==
    CASE mode = "Accumulator" -> Accumulator
      [] mode = "Immediate" -> Immediate(op2 % 256)
      [] mode = "ZeroPage" -> ZeroPage(op1 % 256, 0)
      [] mode = "ZeroPage,X" -> ZeroPage(op1 % 256, 1)
      [] mode = "ZeroPage,Y" -> ZeroPage(op1 % 256, 2)
      [] mode = "Relative" -> Relative(op1 % 256)
      [] mode = "Absolute" -> Absolute(op1 * 256 + op2, 0)
      [] mode = "Absolute,X" -> Absolute(op1 * 256 + op2, 1)
      [] mode = "Absolute,Y" -> Absolute(op1 * 256 + op2, 2)
      [] mode = "Indirect" -> Indirect(op1 * 256 + op2)
      [] mode = "(Indirect,X)" -> IndexedIndirect(op1 % 256)
      [] mode = "(Indirect),Y" -> IndirectIndexed(op1 % 256)
      [] OTHER -> Implied

\* mode_to_enum that takes the second operand byte as the high byte of a
\* two-byte operand
mode_to_enum_low_byte_first(mode, op1, op2) ==
    CASE mode = "Accumulator" -> Accumulator
      [] mode = "Immediate" -> Immediate(op1 % 256)
      [] mode = "ZeroPage" -> ZeroPage(op1 % 256, 0)
      [] mode = "ZeroPage,X" -> ZeroPage(op1 % 256, 1)
      [] mode = "ZeroPage,Y" -> ZeroPage(op1 % 256, 2)
      [] mode = "Relative" -> Relative(op1 % 256)
      [] mode = "Absolute" -> Absolute(op2 * 256 + op1, 0)
      [] mode = "Absolute,X" -> Absolute(op2 * 256 + op1, 1)
      [] mode = "Absolute,Y" -> Absolute(op2 * 256 + op1, 2)
      [] mode = "Indirect" -> Indirect(op2 * 256 + op1)
      [] mode = "(Indirect,X)" -> IndexedIndirect(op1 % 256)
      [] mode = "(Indirect),Y" -> IndirectIndexed(op1 % 256)
      [] OTHER -> Implied

mode_to_enum(mode, op1, op2) ==
    CASE mode = "Accumulator" -> Accumulator
      [] mode = "Immediate" -> Immediate(op1 % 256)
      [] mode = "ZeroPage" -> ZeroPage(op1 % 256, 0)
      [] mode = "ZeroPage,X" -> ZeroPage(op1 % 256, 1)
      [] mode = "ZeroPage,Y" -> ZeroPage(op1 % 256, 2)
      [] mode = "Relative" -> Relative(op1 % 256)
      [] mode = "Absolute" -> Absolute(op1 * 256 + op2, 0)
      [] mode = "Absolute,X" -> Absolute(op1 * 256 + op2, 1)
      [] mode = "Absolute,Y" -> Absolute(op1 * 256 + op2, 2)
      [] mode = "Indirect" -> Indirect(op1 * 256 + op2)
      [] mode = "(Indirect,X)" -> IndexedIndirect(op1 % 256)
      [] mode = "(Indirect),Y" -> IndirectIndexed(op1 % 256)
      [] OTHER -> Implied

-----------------------------------------------------------------------------
(* cpu.rs: CPU                                                             *)

CPU_new(memory) ==
    [registers |-> Registers_new, flags_register |-> FlagsRegister_new,
     memory |-> memory, panicked |-> FALSE]

\* the (u8, u16) that resolve_addressing_mode returns, or its panic
Resolved(value, address) == [value |-> value, address |-> address, panicked |-> FALSE]
ResolvePanic == [value |-> 0, address |-> 0, panicked |-> TRUE]

resolve_addressing_mode(m, addressing_mode, oc) ==
    CASE addressing_mode.kind = "Relative" ->
            LET relative == addressing_mode.operand
                signed == Bit(relative, 7) = 1
                value == relative % 128
                \* !value + 1 on u8
                negated == (255 - value) + 1
            IN  IF signed
                THEN IF negated > 255
                     THEN IF oc THEN ResolvePanic ELSE Resolved(negated % 256, negated % 256)
                     ELSE Resolved(negated, negated)
                ELSE Resolved(value, value)
      [] addressing_mode.kind = "Immediate" ->
            Resolved(addressing_mode.operand, addressing_mode.operand)
      [] addressing_mode.kind = "ZeroPage" ->
            LET address == addressing_mode.operand
                register == addressing_mode.register
                register_value ==
                    IF register = 2 THEN get_register(m, "Y")
                    ELSE IF register = 1 THEN get_register(m, "X")
                    ELSE 0
                \* address + register_value on u8
                sum == address + register_value
                new_address == sum % 256
            IN  IF sum > 255 /\ oc
                THEN ResolvePanic
                ELSE Resolved(get_byte(m.memory, new_address), new_address)
      [] addressing_mode.kind = "Absolute" ->
            LET address == addressing_mode.operand
                register == addressing_mode.register
                register_value ==
                    IF register = 2 THEN get_register(m, "Y")
                    ELSE IF register = 1 THEN get_register(m, "X")
                    ELSE 0
                \* address + register_value on u16
                sum == address + register_value
                new_address == sum % 65536
            IN  IF sum > 65535 /\ oc
                THEN ResolvePanic
                ELSE Resolved(get_byte(m.memory, new_address), new_address)
      [] OTHER -> Resolved(0, 0)

\* Load/Store Operations
\* load with Negative left as it was
load_negative_stale(m, register, value) ==
    LET m1 == set_register(m, register, value)
    IN  set_zero(m1, value = 0)

load(m, register, value) ==
    LET m1 == set_register(m, register, value)
        m2 == set_zero(m1, value = 0)
    IN  set_negative(m2, Bit(value, 7) = 1)

\* store that sets Zero and Negative from the stored value, as load does
store_with_load_flags(m, register, address) ==
    LET register_value == get_register(m, register)
        m1 == mem_set(m, address, register_value)
        m2 == set_zero(m1, register_value = 0)
    IN  set_negative(m2, Bit(register_value, 7) = 1)

\* store that writes the accumulator whichever register is named
store_of_accumulator(m, register, address) ==
    mem_set(m, address, get_register(m, "A"))

store(m, register, address) ==
    mem_set(m, address, get_register(m, register))

\* Register Transfers
transfer(m, from, to) ==
    LET register_value == get_register(m, from)
        m1 == set_register(m, to, register_value)
        m2 == set_zero(m1, register_value = 0)
    IN  set_negative(m2, Bit(register_value, 7) = 1)

\* Stack Operations
\* push that counts the address down from S before it writes, on the u16
push_after_decrement(m, value) ==
    LET address == get_register(m, "S") + 256 - 1
    IN  push_stack(mem_set(m, address, value))

push(m, value) ==
    LET address == get_register(m, "S") + 256
    IN  push_stack(mem_set(m, address, value))

\* pop that clears the cell it has read
pop_clearing_cell(m) ==
    LET address == get_register(m, "S") + 256
        value == get_byte(m.memory, address)
    IN  [m |-> pop_stack(mem_set(m, address, 0)), value |-> value]

\* pop returns the machine and the value read
pop(m) ==
    LET address == get_register(m, "S") + 256
        value == get_byte(m.memory, address)
    IN  [m |-> pop_stack(m), value |-> value]

\* Logical Functions: each returns the machine and the result
logical_and(m, reg_value, mem_value) ==
    LET and_result == BitwiseAnd(reg_value, mem_value, 8)
        m1 == set_zero(m, and_result = 0)
    IN  [m |-> set_negative(m1, Bit(and_result, 7) = 1), value |-> and_result]

logical_xor(m, reg_value, mem_value) ==
    LET xor_result == BitwiseXor(reg_value, mem_value, 8)
        m1 == set_zero(m, xor_result = 0)
    IN  [m |-> set_negative(m1, Bit(xor_result, 7) = 1), value |-> xor_result]

logical_or(m, reg_value, mem_value) ==
    LET or_result == BitwiseOr(reg_value, mem_value, 8)
        m1 == set_zero(m, or_result = 0)
    IN  [m |-> set_negative(m1, Bit(or_result, 7) = 1), value |-> or_result]

\* logical_bit_test with Overflow and Negative taken from the AND result
logical_bit_test_flags_of_and(m, reg_value, mem_value) ==
    LET and_result == BitwiseAnd(reg_value, mem_value, 8)
        m1 == set_zero(m, and_result = 0)
        m2 == set_overflow(m1, Bit(and_result, 6) = 1)
    IN  set_negative(m2, Bit(and_result, 7) = 1)

logical_bit_test(m, reg_value, mem_value) ==
    LET and_result == BitwiseAnd(reg_value, mem_value, 8)
        m1 == set_zero(m, and_result = 0)
        m2 == set_overflow(m1, Bit(mem_value, 6) = 1)
    IN  set_negative(m2, Bit(mem_value, 7) = 1)

\* Arithmetic Functions
\* arithmetic_add with Zero taken from the i16 sum instead of the result byte
arithmetic_add_zero_of_sum(m, reg_value, mem_value) ==
    LET carry == IF m.flags_register.carry THEN 1 ELSE 0
        signed_reg_value == as_i8(reg_value)
        signed_mem_value == as_i8(mem_value)
        sum == signed_reg_value + signed_mem_value + carry
        unsigned_sum == sum % 256
        m1 == set_carry(m, Bit(sum, 8) = 1)
        m2 == set_zero(m1, sum = 0)
        m3 == set_overflow(m2, Bit(sum, 8) # Bit(sum, 7))
    IN  [m |-> set_negative(m3, Bit(sum, 7) = 1), value |-> unsigned_sum]

\* arithmetic_add with Overflow taken from the sum without the carry-in
arithmetic_add_overflow_without_carry(m, reg_value, mem_value) ==
    LET carry == IF m.flags_register.carry THEN 1 ELSE 0
        signed_reg_value == as_i8(reg_value)
        signed_mem_value == as_i8(mem_value)
        sum == signed_reg_value + signed_mem_value + carry
        sum_without_carry == signed_reg_value + signed_mem_value
        unsigned_sum == sum % 256
        m1 == set_carry(m, Bit(sum, 8) = 1)
        m2 == set_zero(m1, unsigned_sum = 0)
        m3 == set_overflow(m2, Bit(sum_without_carry, 8) # Bit(sum_without_carry, 7))
    IN  [m |-> set_negative(m3, Bit(sum, 7) = 1), value |-> unsigned_sum]

arithmetic_add(m, reg_value, mem_value) ==
    LET carry == IF m.flags_register.carry THEN 1 ELSE 0
        signed_reg_value == as_i8(reg_value)
        signed_mem_value == as_i8(mem_value)
        sum == signed_reg_value + signed_mem_value + carry
        unsigned_sum == sum % 256
        m1 == set_carry(m, Bit(sum, 8) = 1)
        m2 == set_zero(m1, unsigned_sum = 0)
        m3 == set_overflow(m2, Bit(sum, 8) # Bit(sum, 7))
    IN  [m |-> set_negative(m3, Bit(sum, 7) = 1), value |-> unsigned_sum]

\* arithmetic_sub that takes 6 more from the difference when Decimal is set
arithmetic_sub_decimal_adjusted(m, reg_value, mem_value) ==
    LET carry == IF m.flags_register.carry THEN 1 ELSE 0
        adjust == IF m.flags_register.decimal THEN 6 ELSE 0
        signed_reg_value == as_i8(reg_value)
        signed_mem_value == as_i8(mem_value)
        sub == signed_reg_value - signed_mem_value - (1 - carry) - adjust
        unsigned_sub == sub % 256
        m1 == set_carry(m, Bit(sub, 8) = 0)
        m2 == set_zero(m1, unsigned_sub = 0)
        m3 == set_overflow(m2, Bit(sub, 8) # Bit(sub, 7))
    IN  [m |-> set_negative(m3, Bit(sub, 7) = 1), value |-> unsigned_sub]

arithmetic_sub(m, reg_value, mem_value) ==
    LET carry == IF m.flags_register.carry THEN 1 ELSE 0
        signed_reg_value == as_i8(reg_value)
        signed_mem_value == as_i8(mem_value)
        sub == signed_reg_value - signed_mem_value - (1 - carry)
        unsigned_sub == sub % 256
        m1 == set_carry(m, Bit(sub, 8) = 0)
        m2 == set_zero(m1, unsigned_sub = 0)
        m3 == set_overflow(m2, Bit(sub, 8) # Bit(sub, 7))
    IN  [m |-> set_negative(m3, Bit(sub, 7) = 1), value |-> unsigned_sub]

arithmetic_cmp(m, reg_value, mem_value) ==
    LET signed_reg_value == as_i8(reg_value)
        signed_mem_value == as_i8(mem_value)
        sub == signed_reg_value - signed_mem_value
        m1 == set_carry(m, signed_reg_value >= signed_mem_value)
        m2 == set_zero(m1, signed_reg_value = signed_mem_value)
    IN  set_negative(m2, Bit(sub, 7) = 1)

\* Increments & Decrements: each returns the machine and the result
\* increment that sets Carry to the carry out of bit 7
increment_with_carry(m, value) ==
    LET incremented == (value + 1) % 256
        m1 == set_zero(m, incremented = 0)
        m2 == set_carry(m1, value + 1 > 255)
    IN  [m |-> set_negative(m2, Bit(incremented, 7) = 1), value |-> incremented]

increment(m, value) ==
    LET incremented == (value + 1) % 256
        m1 == set_zero(m, incremented = 0)
    IN  [m |-> set_negative(m1, Bit(incremented, 7) = 1), value |-> incremented]

\* (value as u16) - 1 underflows on 0
decrement(m, value, oc) ==
    IF value = 0 /\ oc
    THEN [m |-> panic(m), value |-> 0]
    ELSE LET decremented == (value + 65535) % 256
             m1 == set_zero(m, decremented = 0)
         IN  [m |-> set_negative(m1, Bit(decremented, 7) = 1), value |-> decremented]

\* Shifts: each returns the machine and the result.  execute calls none of
\* them.
arithmetic_shift_left(m, value) ==
    LET shift_result == (value * 2) % 256
        m1 == set_carry(m, Bit(value, 7) = 1)
        m2 == set_zero(m1, shift_result = 0)
    IN  [m |-> set_negative(m2, Bit(shift_result, 7) = 1), value |-> shift_result]

logical_shift_right(m, value) ==
    LET shift_result == value \div 2
        m1 == set_carry(m, Bit(value, 7) = 1)
        m2 == set_zero(m1, shift_result = 0)
    IN  [m |-> set_negative(m2, Bit(shift_result, 7) = 1), value |-> shift_result]

rotate_left(m, value) ==
    LET shift_result == BitwiseOr((value * 2) % 256, BitwiseAnd(value, 128, 8), 8)
        m1 == set_carry(m, Bit(value, 7) = 1)
        m2 == set_zero(m1, shift_result = 0)
    IN  [m |-> set_negative(m2, Bit(shift_result, 7) = 1), value |-> shift_result]

\* the second fn rotate_left of the source, whose body shifts to the right
rotate_right(m, value) ==
    LET shift_result == BitwiseOr(value \div 2, BitwiseAnd(value, 1, 8), 8)
        m1 == set_carry(m, Bit(value, 7) = 1)
        m2 == set_zero(m1, shift_result = 0)
    IN  [m |-> set_negative(m2, Bit(shift_result, 7) = 1), value |-> shift_result]

\* Branch
pc_inc(m, oc) == change_pc(m, 1, oc)

\* branch that changes PC when the flag is false
branch_when_flag_false(m, address, flag, oc) ==
    IF ~flag THEN change_pc(m, address, oc) ELSE m

branch(m, address, flag, oc) ==
    IF flag THEN change_pc(m, address, oc) ELSE m

\* the mnemonics of InstructionType, by family
LoadStoreInstructions == {"LDA", "LDX", "LDY", "STA", "STX", "STY"}
RegisterTransferInstructions == {"TAX", "TAY", "TXA", "TYA"}
StackOperationInstructions == {"TSX", "TXS", "PHA", "PHP", "PLA", "PLP"}
LogicalInstructions == {"AND", "EOR", "ORA", "BIT"}
ArithmeticsInstructions == {"ADC", "SBC", "CMP", "CPX", "CPY"}
IncrementDecrementInstructions == {"INC", "INX", "INY", "DEC", "DEX", "DEY"}
ShiftInstructions == {"ASL", "LSR", "ROL", "ROR"}
JumpCallInstructions == {"JMP", "JSR", "RTS"}
BranchInstructions == {"BCC", "BCS", "BEQ", "BMI", "BNE", "BPL", "BVC", "BVS"}
StatusFlagInstructions == {"CLC", "CLD", "CLI", "CLV", "SEC", "SED", "SEI"}
SystemFunctionsInstructions == {"BRK", "NOP", "RTI"}

InstructionType ==
    LoadStoreInstructions \cup RegisterTransferInstructions
    \cup StackOperationInstructions \cup LogicalInstructions
    \cup ArithmeticsInstructions \cup IncrementDecrementInstructions
    \cup ShiftInstructions \cup JumpCallInstructions \cup BranchInstructions
    \cup StatusFlagInstructions \cup SystemFunctionsInstructions

\* the arms of execute, after the addressing mode has resolved to
\* (address_value, address)
execute_arm(m, op, address_value, address, oc) ==
    CASE op = "LDA" -> pc_inc(load(m, "A", address_value), oc)
      [] op = "LDX" -> pc_inc(load(m, "X", address_value), oc)
      [] op = "LDY" -> pc_inc(load(m, "Y", address_value), oc)
      [] op = "STA" -> pc_inc(store(m, "A", address), oc)
      [] op = "STX" -> pc_inc(store(m, "X", address), oc)
      [] op = "STY" -> pc_inc(store(m, "Y", address), oc)
      [] op = "TAX" -> pc_inc(transfer(m, "A", "X"), oc)
      [] op = "TAY" -> pc_inc(transfer(m, "A", "Y"), oc)
      [] op = "TXA" -> pc_inc(transfer(m, "X", "A"), oc)
      [] op = "TYA" -> pc_inc(transfer(m, "Y", "A"), oc)
      [] op = "TSX" ->
            LET stack_pointer == get_register(m, "S")
                m1 == set_register(m, "X", stack_pointer)
                m2 == set_zero(m1, stack_pointer = 0)
                m3 == set_negative(m2, Bit(stack_pointer, 7) = 1)
            IN  pc_inc(m3, oc)
      [] op = "TXS" ->
            pc_inc(set_register(m, "S", get_register(m, "X")), oc)
      [] op = "PHA" -> pc_inc(push(m, get_register(m, "A")), oc)
      \* let status_flags: u8 = *flags_register: the flags packed into a byte
      [] op = "PHP" ->
            pc_inc(push(m, u8_from_FlagsRegister(m.flags_register)), oc)
      [] op = "PLA" ->
            LET popped == pop(m)
                value == popped.value
                m1 == set_register(popped.m, "A", value)
                m2 == set_zero(m1, value = 0)
                m3 == set_negative(m2, Bit(value, 7) = 1)
            IN  pc_inc(m3, oc)
      [] op = "PLP" ->
            LET popped == pop(m)
            IN  pc_inc(FlagsRegister_load(popped.m, popped.value), oc)
      [] op = "AND" ->
            LET r == logical_and(m, get_register(m, "A"), address_value)
            IN  pc_inc(set_register(r.m, "A", r.value), oc)
      [] op = "EOR" ->
            LET r == logical_xor(m, get_register(m, "A"), address_value)
            IN  pc_inc(set_register(r.m, "A", r.value), oc)
      [] op = "ORA" ->
            LET r == logical_or(m, get_register(m, "A"), address_value)
            IN  pc_inc(set_register(r.m, "A", r.value), oc)
      [] op = "BIT" ->
            pc_inc(logical_bit_test(m, get_register(m, "A"), address_value), oc)
      [] op = "ADC" ->
            LET r == arithmetic_add(m, get_register(m, "A"), address_value)
            IN  pc_inc(set_register(r.m, "A", r.value), oc)
      [] op = "SBC" ->
            LET r == arithmetic_sub(m, get_register(m, "A"), address_value)
            IN  pc_inc(set_register(r.m, "A", r.value), oc)
      [] op = "CMP" ->
            pc_inc(arithmetic_cmp(m, get_register(m, "A"), address_value), oc)
      [] op = "CPX" ->
            pc_inc(arithmetic_cmp(m, get_register(m, "X"), address_value), oc)
      [] op = "CPY" ->
            pc_inc(arithmetic_cmp(m, get_register(m, "Y"), address_value), oc)
      [] op = "INC" ->
            LET r == increment(m, address_value)
            IN  pc_inc(mem_set(r.m, address, r.value), oc)
      [] op = "INX" ->
            LET r == increment(m, get_register(m, "X"))
            IN  pc_inc(set_register(r.m, "X", r.value), oc)
      [] op = "INY" ->
            LET r == increment(m, get_register(m, "Y"))
            IN  pc_inc(set_register(r.m, "Y", r.value), oc)
      [] op = "DEC" ->
            LET r == decrement(m, address_value, oc)
            IN  IF r.m.panicked THEN r.m
                ELSE pc_inc(mem_set(r.m, address, r.value), oc)
      [] op = "DEX" ->
            LET r == decrement(m, get_register(m, "X"), oc)
            IN  IF r.m.panicked THEN r.m
                ELSE pc_inc(set_register(r.m, "X", r.value), oc)
      [] op = "DEY" ->
            LET r == decrement(m, get_register(m, "Y"), oc)
            IN  IF r.m.panicked THEN r.m
                ELSE pc_inc(set_register(r.m, "Y", r.value), oc)
      [] op \in ShiftInstructions -> pc_inc(m, oc)
      [] op = "JMP" -> set_pc(m, address)
      [] op = "JSR" ->
            LET pc == get_pc(m)
                msb == pc \div 256
                lsb == pc % 256
            IN  set_pc(push(push(m, msb), lsb), address)
      [] op = "RTS" ->
            LET first == pop(m)
                lsb == first.value
                second == pop(first.m)
                msb == second.value
            IN  set_pc(second.m, msb * 256 + lsb)
      [] op = "BCC" -> branch(m, address, ~m.flags_register.carry, oc)
      [] op = "BCS" -> branch(m, address, m.flags_register.carry, oc)
      [] op = "BEQ" -> branch(m, address, m.flags_register.zero, oc)
      [] op = "BMI" -> branch(m, address, m.flags_register.negative, oc)
      [] op = "BNE" -> branch(m, address, ~m.flags_register.zero, oc)
      [] op = "BPL" -> branch(m, address, ~m.flags_register.negative, oc)
      [] op = "BVC" -> branch(m, address, ~m.flags_register.overflow, oc)
      [] op = "BVS" -> branch(m, address, m.flags_register.overflow, oc)
      [] op = "CLC" -> set_carry(m, FALSE)
      [] op = "CLD" -> set_decimal(m, FALSE)
      [] op = "CLI" -> set_interrupt(m, FALSE)
      [] op = "CLV" -> set_overflow(m, FALSE)
      [] op = "SEC" -> set_carry(m, TRUE)
      [] op = "SED" -> set_decimal(m, TRUE)
      [] op = "SEI" -> set_interrupt(m, TRUE)
      [] op = "BRK" -> m
      [] op = "NOP" -> pc_inc(m, oc)
      [] op = "RTI" -> m
      [] OTHER -> panic(m)

execute_brk_pushes_status(m, instruction, oc) ==
    LET r == resolve_addressing_mode(m, instruction.address, oc)
    IN  IF r.panicked THEN panic(m)
        ELSE IF instruction.instruction = "BRK"
        THEN set_interrupt(push(m, u8_from_FlagsRegister(m.flags_register)), TRUE)
        ELSE execute_arm(m, instruction.instruction, r.value, r.address, oc)

execute(m, instruction, oc) ==
    LET r == resolve_addressing_mode(m, instruction.address, oc)
    IN  IF r.panicked THEN panic(m)
        ELSE execute_arm(m, instruction.instruction, r.value, r.address, oc)

-----------------------------------------------------------------------------
(* instructions.rs: InstructionReader::read.  A text is the sequence of    *)
(* its characters; the characters are ASCII, so byte ranges of the padded  *)
(* string are character ranges.                                            *)

\* format!("{:0<6}", s): s, filled on the right with '0' up to six characters
padded_string(s) ==
    IF Len(s) >= 6 THEN s ELSE s \o [i \in 1..(6 - Len(s)) |-> "0"]

UpperHexDigits ==
    <<"0", "1", "2", "3", "4", "5", "6", "7", "8", "9", "A", "B", "C", "D", "E", "F">>
LowerHexDigits ==
    <<"0", "1", "2", "3", "4", "5", "6", "7", "8", "9", "a", "b", "c", "d", "e", "f">>

\* char::to_digit(16): the digit's value, or -1 for None
to_digit(c) ==
    IF \E i \in DOMAIN UpperHexDigits : UpperHexDigits[i] = c
    THEN (CHOOSE i \in DOMAIN UpperHexDigits : UpperHexDigits[i] = c) - 1
    ELSE IF \E i \in DOMAIN LowerHexDigits : LowerHexDigits[i] = c
    THEN (CHOOSE i \in DOMAIN LowerHexDigits : LowerHexDigits[i] = c) - 1
    ELSE -1

RECURSIVE digits_value(_)
digits_value(digits) ==
    IF digits = <<>> THEN 0
    ELSE 16 * digits_value(SubSeq(digits, 1, Len(digits) - 1))
            + to_digit(digits[Len(digits)])

\* u16::from_str_radix(src, 16) on a non-empty src: one leading '+' is
\* accepted, every other character must be a hexadecimal digit
from_str_radix(src) ==
    LET digits == IF src[1] = "+" THEN Tail(src) ELSE src
    IN  IF digits # <<>> /\ \A i \in DOMAIN digits : to_digit(digits[i]) >= 0
        THEN [ok |-> TRUE, value |-> digits_value(digits)]
        ELSE [ok |-> FALSE, value |-> 0]

\* what a call of read comes to: the Instruction it returns, or the panic
\* that ends it
ReadReturns(instruction) ==
    [kind |-> "Instruction", instruction |-> instruction, panic |-> ""]
ReadPanics(message) ==
    [kind |-> "panic", instruction |-> Instruction("none", Implied),
     panic |-> message]

\* Result::unwrap on the Err of from_str_radix, and HashMap's Index on a key
\* it does not hold
ParseIntErrorPanic == ReadPanics("unwrap on Err(ParseIntError)")
NoEntryPanic == ReadPanics("no entry found for key")
EnumFromStrPanic == ReadPanics("unwrap on Err(ParseEnumError)")

read_unknown_opcode_as_nop(s) ==
    LET padded == padded_string(s)
        opcode == padded[1] \o padded[2]
        operand1 == from_str_radix(SubSeq(padded, 3, 4))
        operand2 == from_str_radix(SubSeq(padded, 5, 6))
    IN  IF ~operand1.ok \/ ~operand2.ok THEN ParseIntErrorPanic
        ELSE IF opcode \notin DOMAIN instruction_map
        THEN ReadReturns(Instruction("NOP", Implied))
        ELSE ReadReturns(Instruction(instruction_map[opcode][1],
                mode_to_enum(instruction_map[opcode][2], operand1.value, operand2.value)))

read(s) ==
    LET padded == padded_string(s)
        opcode == padded[1] \o padded[2]
        operand1 == from_str_radix(SubSeq(padded, 3, 4))
        operand2 == from_str_radix(SubSeq(padded, 5, 6))
    IN  IF ~operand1.ok \/ ~operand2.ok THEN ParseIntErrorPanic
        ELSE IF opcode \notin DOMAIN instruction_map THEN NoEntryPanic
        ELSE LET inst_name == instruction_map[opcode][1]
                 inst_mode == instruction_map[opcode][2]
             IN  IF inst_name \notin InstructionType THEN EnumFromStrPanic
                 ELSE ReadReturns(Instruction(inst_name,
                         mode_to_enum(inst_mode, operand1.value, operand2.value)))

-----------------------------------------------------------------------------
(* The harness: a caller that owns the memory, constructs the CPU and      *)
(* hands it decoded instructions (main.rs).                                *)

\* how many instructions a run of Spec executes
MaxSteps == 2

Machine(registers, flags, memory) ==
    [registers |-> registers, flags_register |-> flags,
     memory |-> memory, panicked |-> FALSE]

\* Register contents a program reaches from CPU::new with loads, TXS and JMP:
\* a mid-page PC with the stack at its top, and a PC and an S next to their
\* wrap-around.
TypicalRegisters ==
    [a |-> 129, x |-> 10, y |-> 3, pc |-> 32784, s |-> 255, p |-> 0]

EdgeRegisters ==
    [a |-> 1, x |-> 255, y |-> 128, pc |-> 65535, s |-> 1, p |-> 0]

RegisterPresets == {Registers_new, TypicalRegisters, EdgeRegisters}

\* Memory contents a program reaches from Memory::new with stores
PopulatedMemory ==
    (0 :> 128) @@ (130 :> 9) @@ (256 :> 18) @@ (257 :> 52) @@ (511 :> 86)
    @@ (65535 :> 7)

MemoryPresets == {Memory_new, PopulatedMemory}

NoInstruction == Instruction("none", Implied)

\* no text has been handed to read yet
NotRead == [kind |-> "none", instruction |-> NoInstruction, panic |-> ""]

\* the legal (mnemonic, mode) pairs of a family, with their operand bytes
\* drawn from op1s and op2s
Encodings(family, modes, op1s, op2s) ==
    { Instruction(instruction_names_and_modes[i][1],
                  mode_to_enum(instruction_names_and_modes[i][2], op1, op2)) :
        i \in { j \in DOMAIN instruction_names_and_modes :
                  /\ instruction_names_and_modes[j][1] \in family
                  /\ instruction_names_and_modes[j][2] \in modes },
        op1 \in op1s, op2 \in op2s }

AllModes == { instruction_names_and_modes[i][2] : i \in DOMAIN instruction_names_and_modes }

\* one call of CPU::execute, in a build with overflow checks or without
Execute(instruction) ==
    /\ ~cpu.panicked
    /\ cpu' \in { execute(cpu, instruction, oc) : oc \in BOOLEAN }
    /\ last' = instruction
    /\ before' = cpu
    /\ last2' = last
    /\ before2' = before
    /\ steps' = steps + 1
    /\ UNCHANGED <<text, decoded, returned>>

InitHistory ==
    /\ last = NoInstruction
    /\ last2 = NoInstruction
    /\ before = cpu
    /\ before2 = cpu
    /\ steps = 0
    /\ text = <<>>
    /\ decoded = NotRead
    /\ returned = 0

-----------------------------------------------------------------------------
(* Spec: runs of up to MaxSteps instructions                               *)

SeqModes == {"Implied", "Accumulator", "Immediate", "Relative", "Absolute"}
SeqOp1 == {1, 255}
SeqOp2 == {255}

Init ==
    /\ cpu \in { Machine(r, FlagsRegister_new, Memory_new) :
                    r \in {Registers_new, TypicalRegisters} }
    /\ InitHistory

SeqEncodings(family) == Encodings(family, SeqModes, SeqOp1, SeqOp2)

ExecLoadStore ==
    /\ steps < MaxSteps
    /\ \E i \in SeqEncodings(LoadStoreInstructions) : Execute(i)
ExecRegisterTransfer ==
    /\ steps < MaxSteps
    /\ \E i \in SeqEncodings(RegisterTransferInstructions) : Execute(i)
ExecStack ==
    /\ steps < MaxSteps
    /\ \E i \in SeqEncodings(StackOperationInstructions) : Execute(i)
ExecLogical ==
    /\ steps < MaxSteps
    /\ \E i \in SeqEncodings(LogicalInstructions) : Execute(i)
ExecArithmetic ==
    /\ steps < MaxSteps
    /\ \E i \in SeqEncodings(ArithmeticsInstructions) : Execute(i)
ExecIncrementDecrement ==
    /\ steps < MaxSteps
    /\ \E i \in SeqEncodings(IncrementDecrementInstructions) : Execute(i)
ExecShift ==
    /\ steps < MaxSteps
    /\ \E i \in SeqEncodings(ShiftInstructions) : Execute(i)
ExecJumpCall ==
    /\ steps < MaxSteps
    /\ \E i \in SeqEncodings(JumpCallInstructions) : Execute(i)
ExecBranch ==
    /\ steps < MaxSteps
    /\ \E i \in SeqEncodings(BranchInstructions) : Execute(i)
ExecStatusFlag ==
    /\ steps < MaxSteps
    /\ \E i \in SeqEncodings(StatusFlagInstructions) : Execute(i)
ExecSystem ==
    /\ steps < MaxSteps
    /\ \E i \in SeqEncodings(SystemFunctionsInstructions) : Execute(i)

Next ==
    \/ ExecLoadStore
    \/ ExecRegisterTransfer
    \/ ExecStack
    \/ ExecLogical
    \/ ExecArithmetic
    \/ ExecIncrementDecrement
    \/ ExecShift
    \/ ExecJumpCall
    \/ ExecBranch
    \/ ExecStatusFlag
    \/ ExecSystem

Spec == Init /\ [][Next]_vars

-----------------------------------------------------------------------------
(* SpecStep: one call of execute, on every legal (mnemonic, mode) pair,    *)
(* from each register preset with each of the 64 flag combinations         *)

StepOp1 == {0, 1, 120, 128, 254, 255}
StepOp2 == {0, 255}

InitStep ==
    /\ cpu \in { Machine(r, f, mem) :
                    r \in RegisterPresets, f \in AllFlags, mem \in MemoryPresets }
    /\ InitHistory

StepEncodings(family) == Encodings(family, AllModes, StepOp1, StepOp2)

StepLoadStore ==
    /\ steps = 0
    /\ \E i \in StepEncodings(LoadStoreInstructions) : Execute(i)
StepRegisterTransfer ==
    /\ steps = 0
    /\ \E i \in StepEncodings(RegisterTransferInstructions) : Execute(i)
StepStack ==
    /\ steps = 0
    /\ \E i \in StepEncodings(StackOperationInstructions) : Execute(i)
StepLogical ==
    /\ steps = 0
    /\ \E i \in StepEncodings(LogicalInstructions) : Execute(i)
StepArithmetic ==
    /\ steps = 0
    /\ \E i \in StepEncodings(ArithmeticsInstructions) : Execute(i)
StepIncrementDecrement ==
    /\ steps = 0
    /\ \E i \in StepEncodings(IncrementDecrementInstructions) : Execute(i)
StepShift ==
    /\ steps = 0
    /\ \E i \in StepEncodings(ShiftInstructions) : Execute(i)
StepJumpCall ==
    /\ steps = 0
    /\ \E i \in StepEncodings(JumpCallInstructions) : Execute(i)
StepBranch ==
    /\ steps = 0
    /\ \E i \in StepEncodings(BranchInstructions) : Execute(i)
StepStatusFlag ==
    /\ steps = 0
    /\ \E i \in StepEncodings(StatusFlagInstructions) : Execute(i)
StepSystem ==
    /\ steps = 0
    /\ \E i \in StepEncodings(SystemFunctionsInstructions) : Execute(i)

\* FlagsRegister::from(u8::from(flags)): the flags packed and unpacked again
FlagsRoundTrip == Instruction("FlagsRoundTrip", Implied)

ConvertFlags ==
    /\ steps = 0
    /\ cpu' = [cpu EXCEPT !.flags_register =
                  FlagsRegister_from_u8(u8_from_FlagsRegister(cpu.flags_register))]
    /\ last' = FlagsRoundTrip
    /\ before' = cpu
    /\ last2' = last
    /\ before2' = before
    /\ steps' = steps + 1
    /\ UNCHANGED <<text, decoded, returned>>

NextStep ==
    \/ StepLoadStore
    \/ StepRegisterTransfer
    \/ StepStack
    \/ StepLogical
    \/ StepArithmetic
    \/ StepIncrementDecrement
    \/ StepShift
    \/ StepJumpCall
    \/ StepBranch
    \/ StepStatusFlag
    \/ StepSystem
    \/ ConvertFlags

SpecStep == InitStep /\ [][NextStep]_vars

-----------------------------------------------------------------------------
(* SpecAlu: one arithmetic instruction with an immediate operand, on every *)
(* register byte, every operand byte and either carry-in                   *)

\* A, X and Y each range over all 256 bytes and differ from one another
InitAlu ==
    /\ cpu \in { Machine([Registers_new EXCEPT !.a = r,
                                               !.x = (r + 85) % 256,
                                               !.y = (r + 170) % 256],
                         [FlagsRegister_new EXCEPT !.carry = c],
                         Memory_new) :
                    r \in Byte, c \in BOOLEAN }
    /\ InitHistory

AluArithmetic ==
    /\ steps = 0
    /\ \E i \in Encodings(ArithmeticsInstructions, {"Immediate"}, Byte, {0}) :
          Execute(i)

NextAlu == AluArithmetic

SpecAlu == InitAlu /\ [][NextAlu]_vars

-----------------------------------------------------------------------------
(* SpecRead: one call of InstructionReader::read on a text, and then       *)
(* CPU::execute of the Instruction it returned on a CPU from CPU::new      *)

\* the characters texts are made of: the sixteen digits the opcode table is
\* written in, two lower-case digits, a letter that is no digit, a sign and
\* a blank
TextCharacters ==
    { UpperHexDigits[i] : i \in DOMAIN UpperHexDigits } \cup {"a", "f", "G", "+", " "}

\* the characters after the opcode: none, one or two operand bytes in either
\* case, a text one character short or one byte long of six, and texts with a
\* character that is no digit
OperandTexts ==
    { <<>>,
      <<"0", "1">>,
      <<"F", "F", "8", "0">>,
      <<"1", "2", "3", "4">>,
      <<"f", "e", "0", "1">>,
      <<"1", "2", "3">>,
      <<"0", "1", "0", "2", "0", "3">>,
      <<"+", "1">>,
      <<"0", "1", "-", "1">>,
      <<"G", "0">>,
      <<"0", "1", "0", "G">> }

Texts ==
    { <<>> } \cup { <<c>> : c \in TextCharacters }
    \cup { <<c1, c2>> \o operands :
              c1 \in TextCharacters, c2 \in TextCharacters, operands \in OperandTexts }

InitRead ==
    /\ cpu = CPU_new(Memory_new)
    /\ InitHistory

Read ==
    /\ steps = 0
    /\ decoded = NotRead
    /\ \E s \in Texts :
          /\ text' = s
          /\ decoded' = read(s)
    /\ UNCHANGED <<cpu, last, before, last2, before2, steps, returned>>

ExecuteDecoded ==
    /\ steps = 0
    /\ decoded.kind = "Instruction"
    /\ Execute(decoded.instruction)

NextRead ==
    \/ Read
    \/ ExecuteDecoded

SpecRead == InitRead /\ [][NextRead]_vars

-----------------------------------------------------------------------------
(* SpecShift: one call of a shift or rotate function of CPU, on every byte *)
(* and every combination of the flags                                      *)

InitShift ==
    /\ cpu \in { Machine(Registers_new, f, Memory_new) : f \in AllFlags }
    /\ InitHistory

\* the call of a function on value came to r: the machine and the byte
\* returned
Call(function, value, r) ==
    /\ cpu' = r.m
    /\ returned' = r.value
    /\ last' = Instruction(function, Immediate(value))
    /\ before' = cpu
    /\ last2' = last
    /\ before2' = before
    /\ steps' = steps + 1
    /\ UNCHANGED <<text, decoded>>

CallArithmeticShiftLeft ==
    /\ steps = 0
    /\ \E value \in Byte :
          Call("arithmetic_shift_left", value, arithmetic_shift_left(cpu, value))
CallLogicalShiftRight ==
    /\ steps = 0
    /\ \E value \in Byte :
          Call("logical_shift_right", value, logical_shift_right(cpu, value))
CallRotateLeft ==
    /\ steps = 0
    /\ \E value \in Byte : Call("rotate_left", value, rotate_left(cpu, value))
CallRotateRight ==
    /\ steps = 0
    /\ \E value \in Byte : Call("rotate_right", value, rotate_right(cpu, value))

NextShift ==
    \/ CallArithmeticShiftLeft
    \/ CallLogicalShiftRight
    \/ CallRotateLeft
    \/ CallRotateRight

SpecShift == InitShift /\ [][NextShift]_vars

-----------------------------------------------------------------------------
(* SpecBit: one BIT instruction, on every accumulator byte and every byte  *)
(* of the memory cell it tests                                             *)

\* the zero-page cell the operand of BIT names
BitCell == 16

\* all six flags set
FlagsAllSet ==
    [negative |-> TRUE, overflow |-> TRUE, decimal |-> TRUE,
     interrupt |-> TRUE, zero |-> TRUE, carry |-> TRUE]

InitBit ==
    /\ cpu \in { Machine([Registers_new EXCEPT !.a = a], f,
                         set_byte(Memory_new, BitCell, v)) :
                    a \in Byte, v \in Byte, f \in {FlagsRegister_new, FlagsAllSet} }
    /\ InitHistory

\* the encodings of BIT whose operand names the cell
BitEncodings ==
    { i \in Encodings({"BIT"}, AllModes, {0, BitCell}, {0, BitCell}) :
        i.address.operand = BitCell }

BitTest ==
    /\ steps = 0
    /\ \E i \in BitEncodings : Execute(i)

NextBit == BitTest

SpecBit == InitBit /\ [][NextBit]_vars

-----------------------------------------------------------------------------
(* Properties                                                              *)

\* the last call was execute(op ...) and it returned
Executed(ops) == last.instruction \in ops /\ ~cpu.panicked

CarryIn(m) == IF m.flags_register.carry THEN 1 ELSE 0

\* the last call was ADC with an immediate operand and it returned
AdcImmediate == Executed({"ADC"}) /\ last.address.kind = "Immediate"

\* C1: after ADC with A = a, operand b and carry-in c, Carry is true exactly
\* when the unsigned sum a + b + c is greater than 255.
C1_AdcCarryIsUnsignedCarryOut ==
    AdcImmediate =>
        cpu.flags_register.carry =
            (before.registers.a + last.address.operand + CarryIn(before) > 255)

\* C2: ADC writes (a + b + c) mod 256 to the accumulator, sets Zero exactly
\* when that byte is 0 and sets Negative to its bit 7.
C2_AdcResultZeroNegative ==
    AdcImmediate =>
        LET result == (before.registers.a + last.address.operand + CarryIn(before)) % 256
        IN  /\ cpu.registers.a = result
            /\ cpu.flags_register.zero = (result = 0)
            /\ cpu.flags_register.negative = (Bit(result, 7) = 1)

\* an ADC whose unsigned sum passes 255 and whose result byte is 0
C2_Witness ==
    /\ AdcImmediate
    /\ before.registers.a + last.address.operand + CarryIn(before) = 256
    /\ before.registers.a = 128
    /\ cpu.registers.a = 0
    /\ cpu.flags_register.zero

\* C3: after ADC, Overflow is true if and only if a and b have the same sign
\* bit and the result byte's sign bit differs from it.
C3_AdcOverflowIsSignedOverflow ==
    AdcImmediate =>
        cpu.flags_register.overflow =
            (/\ Bit(before.registers.a, 7) = Bit(last.address.operand, 7)
             /\ Bit(cpu.registers.a, 7) # Bit(before.registers.a, 7))

\* an ADC of 0x7F and 0x00 with carry-in 1: the carry-in alone overflows
C3_Witness ==
    /\ AdcImmediate
    /\ before.registers.a = 127
    /\ last.address.operand = 0
    /\ before.flags_register.carry
    /\ cpu.flags_register.overflow

\* C4: unpacking the byte that packing the six flags produced yields the same
\* six flags, for each of the 64 combinations.
C4_FlagsRoundTrip ==
    last = FlagsRoundTrip => cpu.flags_register = before.flags_register

\* C5: push(v) followed by pop() returns v and leaves S at its value before
\* the push (PHA pushes A, PLA pops into A).
C5_StackRoundTrip ==
    (last2.instruction = "PHA" /\ Executed({"PLA"})) =>
        /\ cpu.registers.a = before2.registers.a
        /\ cpu.registers.s = before2.registers.s

\* C6: JSR executed at PC = p and then RTS leave PC at p + 3 mod 65536 and S
\* at its value before the JSR.
C6_CallReturnRoundTrip ==
    (last2.instruction = "JSR" /\ last2.address.kind = "Absolute"
        /\ Executed({"RTS"})) =>
        /\ cpu.registers.pc = (before2.registers.pc + 3) % 65536
        /\ cpu.registers.s = before2.registers.s

\* the condition a branch mnemonic names, on the flags f
BranchCondition(op, f) ==
    CASE op = "BCC" -> ~f.carry
      [] op = "BCS" -> f.carry
      [] op = "BEQ" -> f.zero
      [] op = "BNE" -> ~f.zero
      [] op = "BMI" -> f.negative
      [] op = "BPL" -> ~f.negative
      [] op = "BVC" -> ~f.overflow
      [] op = "BVS" -> f.overflow

\* the last call was a branch with a relative operand
BranchCalled ==
    /\ last.instruction \in BranchInstructions
    /\ last.address.kind = "Relative"

\* C7: a branch whose condition is true completes for every offset byte and
\* leaves PC = (PC_before + 2 + d) mod 65536, d the offset byte as a
\* two's-complement value in -128..127.
C7_TakenBranchDisplacement ==
    (BranchCalled /\ BranchCondition(last.instruction, before.flags_register)) =>
        /\ ~cpu.panicked
        /\ cpu.registers.pc =
              (before.registers.pc + 2 + as_i8(last.address.operand)) % 65536

\* C8: a branch whose condition is false leaves PC = PC_before + 2 and changes
\* nothing else.
C8_BranchNotTaken ==
    (BranchCalled /\ ~cpu.panicked
        /\ ~BranchCondition(last.instruction, before.flags_register)) =>
        /\ cpu.registers.pc = (before.registers.pc + 2) % 65536
        /\ cpu.registers = [before.registers EXCEPT !.pc = cpu.registers.pc]
        /\ cpu.flags_register = before.flags_register
        /\ cpu.memory = before.memory

\* the operand bytes that follow the opcode, by addressing mode
OperandBytes(mode) ==
    CASE mode.kind \in {"Implied", "Accumulator"} -> 0
      [] mode.kind \in {"Immediate", "ZeroPage", "Relative",
                        "IndexedIndirect", "IndirectIndexed"} -> 1
      [] mode.kind \in {"Absolute", "Indirect"} -> 2

\* the last call set PC itself: JMP, JSR, RTS or a taken branch
SetsPc ==
    \/ last.instruction \in {"JMP", "JSR", "RTS"}
    \/ /\ last.instruction \in BranchInstructions
       /\ BranchCondition(last.instruction, before.flags_register)

\* C9: every instruction that does not itself set PC leaves
\* PC = (PC_before + 1 + operand bytes) mod 65536.
C9_PcAdvancesByLength ==
    (Executed(InstructionType) /\ ~SetsPc) =>
        cpu.registers.pc =
            (before.registers.pc + 1 + OperandBytes(last.address)) % 65536

\* the register a compare mnemonic names
ComparedRegister(op, m) ==
    CASE op = "CMP" -> m.registers.a
      [] op = "CPX" -> m.registers.x
      [] op = "CPY" -> m.registers.y

\* C10: after CMP/CPX/CPY of register value r with operand m, Carry is true
\* exactly when r >= m as unsigned bytes, Zero exactly when r = m, Negative is
\* bit 7 of (r - m) mod 256, and the registers are unchanged.
C10_CompareIsUnsigned ==
    (Executed({"CMP", "CPX", "CPY"}) /\ last.address.kind = "Immediate") =>
        LET r == ComparedRegister(last.instruction, before)
            m == last.address.operand
        IN  /\ cpu.flags_register.carry = (r >= m)
            /\ cpu.flags_register.zero = (r = m)
            /\ cpu.flags_register.negative = (Bit((r - m) % 256, 7) = 1)
            /\ cpu.registers.a = before.registers.a
            /\ cpu.registers.x = before.registers.x
            /\ cpu.registers.y = before.registers.y

\* C11: SBC with A = a, operand b and carry-in c writes (a - b - (1 - c)) mod
\* 256 to the accumulator and sets Carry exactly when no borrow occurred, that
\* is when a >= b + (1 - c) as unsigned values.
C11_SbcResultAndBorrow ==
    (Executed({"SBC"}) /\ last.address.kind = "Immediate") =>
        LET a == before.registers.a
            b == last.address.operand
            c == CarryIn(before)
        IN  /\ cpu.registers.a = (a - b - (1 - c)) % 256
            /\ cpu.flags_register.carry = (a >= b + (1 - c))

\* the value of the index register a ZeroPage or Absolute operand names
IndexRegisterValue(m, mode) ==
    CASE mode.register = 1 -> m.registers.x
      [] mode.register = 2 -> m.registers.y
      [] OTHER -> 0

\* the last call was a load with a ZeroPage operand
ZeroPageLoad ==
    /\ last.instruction \in {"LDA", "LDX", "LDY"}
    /\ last.address.kind = "ZeroPage"

LoadedRegister(op, m) ==
    CASE op = "LDA" -> m.registers.a
      [] op = "LDX" -> m.registers.x
      [] op = "LDY" -> m.registers.y

\* C12: ZeroPage(base, index) resolves without a fault, in every build, to the
\* effective address (base + index register value) mod 256 and to the byte
\* stored there; a load through it returns with that byte in its register.
C12_ZeroPageWraps ==
    ZeroPageLoad =>
        LET ea == (last.address.operand + IndexRegisterValue(before, last.address)) % 256
            value == get_byte(before.memory, ea)
        IN  /\ \A oc \in BOOLEAN :
                  resolve_addressing_mode(before, last.address, oc) = Resolved(value, ea)
            /\ ~cpu.panicked => LoadedRegister(last.instruction, cpu) = value

\* a text of at most six characters, each a hexadecimal digit
WellFormedHex(s) ==
    /\ Len(s) <= 6
    /\ \A i \in DOMAIN s : to_digit(s[i]) >= 0

\* the opcode byte a well-formed text starts with, and whether the opcode
\* table has an entry for a byte
OpcodeByte(s) == digits_value(SubSeq(padded_string(s), 1, 2))
InOpcodeTable(b) ==
    (UpperHexDigits[(b \div 16) + 1] \o UpperHexDigits[(b % 16) + 1])
        \in DOMAIN instruction_map

\* read has been called on text
ReadCalled == decoded # NotRead

\* C13: decoding a well-formed text whose opcode byte has no entry in the
\* opcode table never produces an Instruction: the call ends in the failure
\* of the table lookup, which is what the caller gets.
C13_UnknownOpcodeIsDecodeError ==
    (ReadCalled /\ WellFormedHex(text) /\ ~InOpcodeTable(OpcodeByte(text))) =>
        /\ decoded.kind # "Instruction"
        /\ decoded = NoEntryPanic

\* the text "02FF80": opcode byte 0x02 is not in the table
C13_Witness ==
    /\ text = <<"0", "2", "F", "F", "8", "0">>
    /\ WellFormedHex(text)
    /\ ~InOpcodeTable(OpcodeByte(text))
    /\ decoded = NoEntryPanic

\* C14: decoding a text that is not well-formed hexadecimal ends in the
\* failure of the hexadecimal parse, which differs from the failure of the
\* table lookup that a well-formed text with an unknown opcode ends in.
C14_MalformedTextIsParseError ==
    (ReadCalled /\ ~WellFormedHex(text)) =>
        /\ decoded = ParseIntErrorPanic
        /\ decoded # NoEntryPanic

\* C15: read("A901") pads the text to "A90100" and returns LDA with
\* Immediate(0x01); executing that Instruction on the CPU that CPU::new built
\* returns with A = 1, Zero = false and Negative = false.
C15_DecodeAndLoadImmediate ==
    (ReadCalled /\ text = <<"A", "9", "0", "1">>) =>
        /\ padded_string(text) = <<"A", "9", "0", "1", "0", "0">>
        /\ decoded = ReadReturns(Instruction("LDA", Immediate(1)))
        /\ steps = 1 =>
              /\ last = decoded.instruction
              /\ before = CPU_new(Memory_new)
              /\ ~cpu.panicked
              /\ cpu.registers.a = 1
              /\ ~cpu.flags_register.zero
              /\ ~cpu.flags_register.negative

\* "A901" has been decoded and the LDA it gave has been executed
C15_Witness ==
    /\ text = <<"A", "9", "0", "1">>
    /\ decoded.kind = "Instruction"
    /\ steps = 1
    /\ last = Instruction("LDA", Immediate(1))
    /\ cpu.registers.a = 1

\* C16: from Carry = false, LDA Immediate(0xFF) followed by ADC
\* Immediate(0x01) ends with A = 0x00, Carry = true, Zero = true and
\* Overflow = false.
C16_LoadThenAddScenario ==
    (/\ last2 = Instruction("LDA", Immediate(255))
     /\ ~before2.flags_register.carry
     /\ last = Instruction("ADC", Immediate(1))
     /\ ~cpu.panicked) =>
        /\ cpu.registers.a = 0
        /\ cpu.flags_register.carry
        /\ cpu.flags_register.zero
        /\ ~cpu.flags_register.overflow

\* the flags a byte holds when each flag is read at its documented position
FlagsAtDocumentedBits(byte) ==
    [negative  |-> Bit(byte, 7) = 1,
     overflow  |-> Bit(byte, 6) = 1,
     decimal   |-> Bit(byte, 3) = 1,
     interrupt |-> Bit(byte, 2) = 1,
     zero      |-> Bit(byte, 1) = 1,
     carry     |-> Bit(byte, 0) = 1]

\* C17: the byte the six flags pack to has N at bit 7, V at bit 6, D at bit 3,
\* I at bit 2, Z at bit 1, C at bit 0 and 0 at bits 4 and 5; unpacking that
\* byte reads each flag from the same bit.
C17_FlagBitPositions ==
    last = FlagsRoundTrip =>
        LET packed == u8_from_FlagsRegister(before.flags_register)
        IN  /\ packed \in Byte
            /\ FlagsAtDocumentedBits(packed) = before.flags_register
            /\ Bit(packed, 4) = 0
            /\ Bit(packed, 5) = 0
            /\ cpu.flags_register = FlagsAtDocumentedBits(packed)

\* C18: a PC change applied to a PC near 0xFFFF completes without a fault and
\* leaves PC equal to the sum modulo 65536: the one-byte advance of NOP leaves
\* PC = (PC_before + 1) mod 65536, and a taken branch with a forward offset
\* completes.
C18_PcWrapsWithoutFault ==
    /\ last.instruction = "NOP" =>
          /\ ~cpu.panicked
          /\ cpu.registers.pc = (before.registers.pc + 1) % 65536
    /\ (/\ BranchCalled
        /\ BranchCondition(last.instruction, before.flags_register)
        /\ last.address.operand < 128) =>
          ~cpu.panicked

\* C19: BRK and RTI, from any state, complete without a fault and leave A, X,
\* Y, S, the six flags and every memory cell as they were.
C19_BrkRtiLeaveState ==
    last.instruction \in {"BRK", "RTI"} =>
        /\ ~cpu.panicked
        /\ cpu.registers.a = before.registers.a
        /\ cpu.registers.x = before.registers.x
        /\ cpu.registers.y = before.registers.y
        /\ cpu.registers.s = before.registers.s
        /\ cpu.flags_register = before.flags_register
        /\ cpu.memory = before.memory

\* BRK called with registers, flags and memory that are not the initial ones
C19_Witness ==
    /\ last.instruction = "BRK"
    /\ before.registers = TypicalRegisters
    /\ before.memory = PopulatedMemory
    /\ before.flags_register.carry
    /\ ~before.flags_register.interrupt
    /\ cpu.registers.s = 255
    /\ cpu.memory = PopulatedMemory
    /\ ~cpu.flags_register.interrupt

\* the flag a status-flag instruction names, and the value it names for it
NamedFlag(op) ==
    CASE op \in {"CLC", "SEC"} -> "carry"
      [] op \in {"CLD", "SED"} -> "decimal"
      [] op \in {"CLI", "SEI"} -> "interrupt"
      [] op = "CLV" -> "overflow"
NamedValue(op) == op \in {"SEC", "SED", "SEI"}

\* C20: CLC, CLD, CLI, CLV, SEC, SED and SEI each set their named flag to their
\* named value and leave the other five flags, A, X, Y, S and all memory
\* unchanged.
C20_StatusFlagInstructions ==
    last.instruction \in StatusFlagInstructions =>
        /\ ~cpu.panicked
        /\ cpu.flags_register =
              [before.flags_register EXCEPT
                  ![NamedFlag(last.instruction)] = NamedValue(last.instruction)]
        /\ cpu.registers.a = before.registers.a
        /\ cpu.registers.x = before.registers.x
        /\ cpu.registers.y = before.registers.y
        /\ cpu.registers.s = before.registers.s
        /\ cpu.memory = before.memory

\* SEI called with Interrupt clear and other flags set
C20_Witness ==
    /\ last.instruction = "SEI"
    /\ ~before.flags_register.interrupt
    /\ before.flags_register.decimal
    /\ before.flags_register.negative
    /\ before.memory = PopulatedMemory
    /\ cpu.flags_register.interrupt
    /\ cpu.flags_register.decimal

\* the operand value and the effective address that addressing-mode
\* resolution handed to the last instruction
OperandValue == resolve_addressing_mode(before, last.address, FALSE).value
EffectiveAddress == resolve_addressing_mode(before, last.address, FALSE).address

ZeroNegativeInstructions ==
    {"LDA", "LDX", "LDY", "TAX", "TAY", "TXA", "TYA", "TSX", "PLA",
     "AND", "ORA", "EOR", "INC", "INX", "INY", "DEC", "DEX", "DEY"}

\* the value each of these instructions computes from the state before it
ComputedValue(op) ==
    CASE op \in {"LDA", "LDX", "LDY"} -> OperandValue
      [] op \in {"TAX", "TAY"} -> before.registers.a
      [] op = "TXA" -> before.registers.x
      [] op = "TYA" -> before.registers.y
      [] op = "TSX" -> before.registers.s
      [] op = "PLA" -> pop(before).value
      [] op = "AND" -> BitwiseAnd(before.registers.a, OperandValue, 8)
      [] op = "ORA" -> BitwiseOr(before.registers.a, OperandValue, 8)
      [] op = "EOR" -> BitwiseXor(before.registers.a, OperandValue, 8)
      [] op = "INC" -> (OperandValue + 1) % 256
      [] op = "DEC" -> (OperandValue - 1) % 256
      [] op = "INX" -> (before.registers.x + 1) % 256
      [] op = "DEX" -> (before.registers.x - 1) % 256
      [] op = "INY" -> (before.registers.y + 1) % 256
      [] op = "DEY" -> (before.registers.y - 1) % 256

\* what the destination each of these instructions names holds afterwards
DestinationValue(op) ==
    CASE op \in {"LDA", "TXA", "TYA", "PLA", "AND", "ORA", "EOR"} -> cpu.registers.a
      [] op \in {"LDX", "TAX", "TSX", "INX", "DEX"} -> cpu.registers.x
      [] op \in {"LDY", "TAY", "INY", "DEY"} -> cpu.registers.y
      [] op \in {"INC", "DEC"} -> get_byte(cpu.memory, EffectiveAddress)

\* C21: after each load, transfer, pull, logical or increment/decrement
\* instruction the destination holds the computed value, Zero is true exactly
\* when that value is 0 and Negative is its bit 7.
C21_ZeroNegativeConsistency ==
    Executed(ZeroNegativeInstructions) =>
        LET value == ComputedValue(last.instruction)
        IN  /\ DestinationValue(last.instruction) = value
            /\ cpu.flags_register.zero = (value = 0)
            /\ cpu.flags_register.negative = (Bit(value, 7) = 1)

\* LDA of a byte with bit 7 set, executed with Zero set and Negative clear
C21_Witness ==
    /\ Executed({"LDA"})
    /\ last.address = Immediate(128)
    /\ before.flags_register.zero
    /\ ~before.flags_register.negative
    /\ cpu.registers.a = 128
    /\ ~cpu.flags_register.zero
    /\ cpu.flags_register.negative

\* the 16-bit value stored low byte first at address and the address after it
Pointer(memory, address) ==
    get_byte(memory, address) + 256 * get_byte(memory, (address + 1) % 65536)

\* C22: JMP with Indirect(addr) sets PC to the 16-bit value whose low byte is
\* memory[addr] and whose high byte is memory[addr + 1]; JMP with
\* Absolute(base) sets PC to base.
C22_JumpTarget ==
    Executed({"JMP"}) =>
        /\ last.address.kind = "Indirect" =>
              cpu.registers.pc = Pointer(before.memory, last.address.operand)
        /\ (last.address.kind = "Absolute" /\ last.address.register = 0) =>
              cpu.registers.pc = last.address.operand

\* the effective address of the two indirect zero-page modes
IndexedIndirectAddress(m, zp) ==
    Pointer(m.memory, (zp + m.registers.x) % 256)
IndirectIndexedAddress(m, zp) ==
    (Pointer(m.memory, zp) + m.registers.y) % 65536

IndirectZeroPageAddress(m, mode) ==
    IF mode.kind = "IndexedIndirect"
    THEN IndexedIndirectAddress(m, mode.operand)
    ELSE IndirectIndexedAddress(m, mode.operand)

\* C23: IndexedIndirect(zp) resolves to the pointer stored at (zp + X) mod 256
\* and IndirectIndexed(zp) to the pointer stored at zp plus Y; a load through
\* either mode reads the byte at that effective address and a store writes
\* that address and no other.
C23_IndirectZeroPageModes ==
    (Executed({"LDA", "STA"})
        /\ last.address.kind \in {"IndexedIndirect", "IndirectIndexed"}) =>
        LET ea == IndirectZeroPageAddress(before, last.address)
        IN  /\ last.instruction = "LDA" =>
                  cpu.registers.a = get_byte(before.memory, ea)
            /\ last.instruction = "STA" =>
                  cpu.memory = set_byte(before.memory, ea, before.registers.a)

\* the last call was a load with an Absolute operand
AbsoluteLoad ==
    /\ last.instruction \in {"LDA", "LDX", "LDY"}
    /\ last.address.kind = "Absolute"

\* C24: Absolute(base, index) resolves without a fault, in every build, to the
\* 16-bit effective address base + index register value and to the byte stored
\* there, also when the sum exceeds 0xFFFF; a load through it returns with
\* that byte in its register.
C24_AbsoluteIndexed ==
    AbsoluteLoad =>
        LET ea == (last.address.operand + IndexRegisterValue(before, last.address)) % 65536
            value == get_byte(before.memory, ea)
        IN  /\ \A oc \in BOOLEAN :
                  resolve_addressing_mode(before, last.address, oc) = Resolved(value, ea)
            /\ ~cpu.panicked => LoadedRegister(last.instruction, cpu) = value

\* the last call was function(v)
Called(function) == last.instruction = function
Argument == last.address.operand

\* C25: shift-left returns (2 * v) mod 256 with Carry = bit 7 of v, and
\* shift-right returns v div 2 with Carry = bit 0 of v; in both, Zero is true
\* exactly when the result is 0 and Negative is bit 7 of the result.
C25_ShiftCarry ==
    /\ Called("arithmetic_shift_left") =>
          /\ returned = (2 * Argument) % 256
          /\ cpu.flags_register.carry = (Bit(Argument, 7) = 1)
          /\ cpu.flags_register.zero = (returned = 0)
          /\ cpu.flags_register.negative = (Bit(returned, 7) = 1)
    /\ Called("logical_shift_right") =>
          /\ returned = Argument \div 2
          /\ cpu.flags_register.carry = (Bit(Argument, 0) = 1)
          /\ cpu.flags_register.zero = (returned = 0)
          /\ cpu.flags_register.negative = (Bit(returned, 7) = 1)

\* C26: rotate-left returns ((2 * v) mod 256) + c with Carry = bit 7 of v, and
\* rotate-right returns (v div 2) + 128 * c with Carry = bit 0 of v, c being
\* the Carry before the call.
C26_RotateThroughCarry ==
    /\ Called("rotate_left") =>
          /\ returned = ((2 * Argument) % 256) + CarryIn(before)
          /\ cpu.flags_register.carry = (Bit(Argument, 7) = 1)
    /\ Called("rotate_right") =>
          /\ returned = (Argument \div 2) + 128 * CarryIn(before)
          /\ cpu.flags_register.carry = (Bit(Argument, 0) = 1)

\* what each shift or rotate instruction makes of the byte v with prior Carry
\* c, and the bit it moves into Carry
ShiftedValue(op, v, c) ==
    CASE op = "ASL" -> (2 * v) % 256
      [] op = "LSR" -> v \div 2
      [] op = "ROL" -> ((2 * v) % 256) + c
      [] op = "ROR" -> (v \div 2) + 128 * c
ShiftedOut(op, v) ==
    IF op \in {"ASL", "ROL"} THEN Bit(v, 7) ELSE Bit(v, 0)

\* C27: ASL, LSR, ROL and ROR commit their result: with Accumulator mode it is
\* written to A, with a memory mode it is written back to the effective
\* address, and Carry, Zero and Negative are those of the operation.
C27_ShiftCommits ==
    Executed(ShiftInstructions) =>
        LET accumulator == last.address.kind = "Accumulator"
            v == IF accumulator THEN before.registers.a ELSE OperandValue
            result == ShiftedValue(last.instruction, v, CarryIn(before))
        IN  /\ accumulator => cpu.registers.a = result
            /\ ~accumulator => get_byte(cpu.memory, EffectiveAddress) = result
            /\ cpu.flags_register.carry = (ShiftedOut(last.instruction, v) = 1)
            /\ cpu.flags_register.zero = (result = 0)
            /\ cpu.flags_register.negative = (Bit(result, 7) = 1)

\* no bit is set in both a and b
NoCommonBit(a, b) == \A i \in 0..7 : ~(Bit(a, i) = 1 /\ Bit(b, i) = 1)

\* C28: BIT with accumulator a and operand m sets Zero exactly when
\* (a AND m) = 0, Overflow to bit 6 of m and Negative to bit 7 of m, and leaves
\* A, Carry and memory unchanged.
C28_BitTest ==
    Executed({"BIT"}) =>
        LET a == before.registers.a
            m == get_byte(before.memory, last.address.operand)
        IN  /\ cpu.flags_register.zero = NoCommonBit(a, m)
            /\ cpu.flags_register.overflow = (Bit(m, 6) = 1)
            /\ cpu.flags_register.negative = (Bit(m, 7) = 1)
            /\ cpu.registers.a = a
            /\ cpu.flags_register.carry = before.flags_register.carry
            /\ cpu.memory = before.memory

\* BIT of 0xC0 with A = 0x01: the AND is 0 while bits 6 and 7 of the operand
\* are set
C28_Witness ==
    /\ Executed({"BIT"})
    /\ last.address = ZeroPage(BitCell, 0)
    /\ before.registers.a = 1
    /\ get_byte(before.memory, BitCell) = 192
    /\ ~before.flags_register.zero
    /\ cpu.flags_register.zero
    /\ cpu.flags_register.overflow
    /\ cpu.flags_register.negative

\* the stack address 0x0100 + s, s taken modulo 256
StackAddress(s) == 256 + (s % 256)

\* C29: JSR executed at PC = p writes the high byte of p + 2 at 0x0100 + S and
\* then its low byte at 0x0100 + S - 1, leaves S two lower and sets PC to the
\* target; RTS takes the low byte from 0x0100 + S + 1 and then the high byte
\* from 0x0100 + S + 2, leaves S two higher and sets PC to high * 256 + low.
C29_CallReturnOrder ==
    /\ (Executed({"JSR"}) /\ last.address.kind = "Absolute") =>
          LET s == before.registers.s
              return == (before.registers.pc + 2) % 65536
          IN  /\ cpu.memory =
                    set_byte(set_byte(before.memory, StackAddress(s), return \div 256),
                             StackAddress(s - 1), return % 256)
              /\ cpu.registers.s = (s - 2) % 256
              /\ cpu.registers.pc = last.address.operand
    /\ Executed({"RTS"}) =>
          LET s == before.registers.s
              low == get_byte(before.memory, StackAddress(s + 1))
              high == get_byte(before.memory, StackAddress(s + 2))
          IN  /\ cpu.registers.pc = high * 256 + low
              /\ cpu.registers.s = (s + 2) % 256

\* C30: push writes the byte at 0x0100 + S and then decrements S (PHA pushes
\* A); pop increments S and then reads the byte at 0x0100 + S, the new S (PLA
\* pops into A).
C30_StackStepOrder ==
    /\ Executed({"PHA"}) =>
          /\ cpu.memory = set_byte(before.memory, StackAddress(before.registers.s),
                                   before.registers.a)
          /\ cpu.registers.s = (before.registers.s - 1) % 256
    /\ Executed({"PLA"}) =>
          /\ cpu.registers.s = (before.registers.s + 1) % 256
          /\ cpu.registers.a = get_byte(before.memory, StackAddress(cpu.registers.s))

-----------------------------------------------------------------------------
(* SpecCount: one call of increment or decrement of CPU, on every byte and *)
(* every combination of the flags, in a build with overflow checks or      *)
(* without                                                                 *)

CallIncrement ==
    /\ steps = 0
    /\ \E value \in Byte : Call("increment", value, increment(cpu, value))
CallDecrement ==
    /\ steps = 0
    /\ \E value \in Byte, oc \in BOOLEAN :
          Call("decrement", value, decrement(cpu, value, oc))

NextCount ==
    \/ CallIncrement
    \/ CallDecrement

SpecCount == InitShift /\ [][NextCount]_vars

\* C31: increment and decrement never fault and return (v + 1) mod 256 and
\* (v - 1) mod 256, with Zero true exactly when the result is 0 and Negative
\* bit 7 of the result: 0xFF increments to 0x00 and 0x00 decrements to 0xFF.
C31_IncrementDecrementWrap ==
    /\ Called("increment") =>
          /\ ~cpu.panicked
          /\ returned = (Argument + 1) % 256
          /\ cpu.flags_register.zero = (returned = 0)
          /\ cpu.flags_register.negative = (returned >= 128)
    /\ Called("decrement") =>
          /\ ~cpu.panicked
          /\ returned = (Argument + 255) % 256
          /\ cpu.flags_register.zero = (returned = 0)
          /\ cpu.flags_register.negative = (returned >= 128)

StoreInstructions == {"STA", "STX", "STY"}

StoredRegister(op) ==
    CASE op = "STA" -> "A"
      [] op = "STX" -> "X"
      [] op = "STY" -> "Y"

\* C32: a store that returns leaves the value of its register (A for STA, X
\* for STX, Y for STY) in the cell at the address the addressing mode resolved
\* to, leaves every other cell as it was, and leaves A, X, Y and S as they
\* were.
C32_StoreWritesRegister ==
    Executed(StoreInstructions) =>
        /\ get_byte(cpu.memory, EffectiveAddress) =
              get_register(before, StoredRegister(last.instruction))
        /\ \A l \in (DOMAIN cpu.memory \cup DOMAIN before.memory) \ {EffectiveAddress} :
              get_byte(cpu.memory, l) = get_byte(before.memory, l)
        /\ cpu.registers.a = before.registers.a
        /\ cpu.registers.x = before.registers.x
        /\ cpu.registers.y = before.registers.y
        /\ cpu.registers.s = before.registers.s

\* STX has overwritten a cell of a populated memory with an X that differs
\* from A and from the cell's old value
C32_Witness ==
    /\ Executed({"STX"})
    /\ before.memory # Memory_new
    /\ before.registers.x # before.registers.a
    /\ get_byte(before.memory, EffectiveAddress) # 0
    /\ get_byte(before.memory, EffectiveAddress) # before.registers.x
    /\ get_byte(cpu.memory, EffectiveAddress) = before.registers.x

\* the branch of the last call was taken: PC has moved by the displacement
\* the Relative mode resolved to
BranchTaken ==
    /\ cpu.registers.pc # before.registers.pc
    /\ cpu.registers.pc = (before.registers.pc + EffectiveAddress) % 65536

\* C33: a branch that returns is taken exactly when its condition holds (BCC
\* Carry false, BCS Carry true, BEQ Zero true, BNE Zero false, BMI Negative
\* true, BPL Negative false, BVC Overflow false, BVS Overflow true), a branch
\* whose condition is false leaves PC where it was, and no branch changes a
\* flag, a register other than PC, or a memory cell.  A displacement that
\* resolves to 0 moves PC nowhere, taken or not.
C33_BranchCondition ==
    (BranchCalled /\ ~cpu.panicked) =>
        /\ BranchTaken =>
              BranchCondition(last.instruction, before.flags_register)
        /\ (BranchCondition(last.instruction, before.flags_register)
              /\ EffectiveAddress # 0) => BranchTaken
        /\ ~BranchCondition(last.instruction, before.flags_register) =>
              cpu.registers.pc = before.registers.pc
        /\ cpu.registers = [before.registers EXCEPT !.pc = cpu.registers.pc]
        /\ cpu.flags_register = before.flags_register
        /\ cpu.memory = before.memory

\* BMI has been taken with Negative true and every other branch condition on
\* Carry, Zero and Overflow false
C33_Witness ==
    /\ BranchCalled
    /\ Executed({"BMI"})
    /\ before.flags_register.negative
    /\ ~before.flags_register.zero
    /\ ~before.flags_register.overflow
    /\ BranchTaken

\* the state before the last call, with the Decimal flag the other way
DecimalTwin == [before EXCEPT !.flags_register.decimal = ~@]

\* the two machines have the same accumulator and the same N, V, Z and C, and
\* both calls returned or both panicked
SameArithmeticOutcome(m1, m2) ==
    /\ m1.panicked = m2.panicked
    /\ m1.registers.a = m2.registers.a
    /\ m1.flags_register.negative = m2.flags_register.negative
    /\ m1.flags_register.overflow = m2.flags_register.overflow
    /\ m1.flags_register.zero = m2.flags_register.zero
    /\ m1.flags_register.carry = m2.flags_register.carry

\* C34: the same ADC or SBC, run from the state before the last call and from
\* the state that differs from it only in the Decimal flag, comes to the same
\* accumulator and the same N, V, Z and C, and each run leaves Decimal as it
\* found it.
C34_DecimalInert ==
    (last.instruction \in {"ADC", "SBC"}) =>
        \A oc \in BOOLEAN :
            (cpu = execute(before, last, oc)) =>
                LET twin == execute(DecimalTwin, last, oc)
                IN  /\ SameArithmeticOutcome(cpu, twin)
                    /\ cpu.flags_register.decimal = before.flags_register.decimal
                    /\ twin.flags_register.decimal = DecimalTwin.flags_register.decimal

\* SBC has run with Decimal set and changed the accumulator and Carry
C34_Witness ==
    /\ Executed({"SBC"})
    /\ before.flags_register.decimal
    /\ ~DecimalTwin.flags_register.decimal
    /\ cpu.registers.a # before.registers.a
    /\ cpu.flags_register.carry # before.flags_register.carry

LogicalAndCountInstructions ==
    {"AND", "ORA", "EOR", "INC", "INX", "INY", "DEC", "DEX", "DEY"}

\* C35: AND, ORA, EOR, INC, INX, INY, DEC, DEX and DEY, when they return,
\* leave Carry, Overflow, Decimal and Interrupt as they were before the
\* instruction.
C35_LogicalAndCountKeepCarryOverflow ==
    Executed(LogicalAndCountInstructions) =>
        /\ cpu.flags_register.carry = before.flags_register.carry
        /\ cpu.flags_register.overflow = before.flags_register.overflow
        /\ cpu.flags_register.decimal = before.flags_register.decimal
        /\ cpu.flags_register.interrupt = before.flags_register.interrupt

\* INX has wrapped X from 0xFF to 0x00 with Overflow set and Carry, Decimal
\* and Interrupt clear, and has changed Zero
C35_Witness ==
    /\ Executed({"INX"})
    /\ before.registers.x = 255
    /\ cpu.registers.x = 0
    /\ before.flags_register.overflow
    /\ ~before.flags_register.carry
    /\ ~before.flags_register.decimal
    /\ ~before.flags_register.interrupt
    /\ cpu.flags_register.zero # before.flags_register.zero

FlagSilentInstructions ==
    {"TXS", "STA", "STX", "STY", "PHA", "PHP", "JMP", "JSR", "RTS", "NOP"}

\* C36: TXS, when it returns, leaves S equal to the X before it, and TXS, STA,
\* STX, STY, PHA, PHP, JMP, JSR, RTS and NOP, when they return, leave all six
\* flags as they were.
C36_FlagSilentInstructions ==
    /\ Executed({"TXS"}) => cpu.registers.s = before.registers.x
    /\ Executed(FlagSilentInstructions) =>
          cpu.flags_register = before.flags_register

\* TXS has copied a negative X that differs from S, with Negative and Zero
\* clear and Carry set
C36_Witness ==
    /\ Executed({"TXS"})
    /\ before.registers.x >= 128
    /\ before.registers.s # before.registers.x
    /\ cpu.registers.s = before.registers.x
    /\ ~before.flags_register.negative
    /\ ~before.flags_register.zero
    /\ before.flags_register.carry

StackPage == 256..511

\* every cell outside addresses is as it was before the last call
MemoryUnchangedExcept(addresses) ==
    \A l \in (DOMAIN cpu.memory \cup DOMAIN before.memory) \ addresses :
        get_byte(cpu.memory, l) = get_byte(before.memory, l)

\* C37: at every step of every run, the cells a push writes and a pop reads
\* are cells of the stack page 0x0100..0x01FF, at 0x0100 + S for the S in
\* effect at the access: PHA and PHP write their byte there and nowhere else,
\* JSR writes the two bytes of PC there and one below (modulo 256) and
\* nowhere else, and PLA, PLP and RTS take their bytes from there and write no
\* cell.
C37_StackConfinement ==
    LET top == StackAddress(before.registers.s)
        below == StackAddress(before.registers.s + 255)
        above == StackAddress(before.registers.s + 1)
    IN  /\ {top, below, above} \subseteq StackPage
        /\ Executed({"PHA"}) =>
              /\ get_byte(cpu.memory, top) = before.registers.a
              /\ MemoryUnchangedExcept({top})
        /\ Executed({"PHP"}) =>
              /\ get_byte(cpu.memory, top) = u8_from_FlagsRegister(before.flags_register)
              /\ MemoryUnchangedExcept({top})
        /\ Executed({"JSR"}) =>
              /\ get_byte(cpu.memory, top) = before.registers.pc \div 256
              /\ get_byte(cpu.memory, below) = before.registers.pc % 256
              /\ MemoryUnchangedExcept({top, below})
        /\ Executed({"PLA"}) =>
              /\ cpu.registers.a = get_byte(before.memory, top)
              /\ cpu.memory = before.memory
        /\ Executed({"PLP"}) =>
              /\ cpu.flags_register = FlagsRegister_from_u8(get_byte(before.memory, top))
              /\ cpu.memory = before.memory
        /\ Executed({"RTS"}) =>
              /\ cpu.registers.pc =
                    get_byte(before.memory, above) * 256 + get_byte(before.memory, top)
              /\ cpu.memory = before.memory

\* after a load, PHA with S = 0 has written A at 0x0100 and S has wrapped to
\* 0xFF
C37_Witness ==
    /\ steps = 2
    /\ Executed({"PHA"})
    /\ before.registers.s = 0
    /\ before.registers.a # 0
    /\ get_byte(cpu.memory, 256) = before.registers.a
    /\ cpu.registers.s = 255

MemoryWritingInstructions ==
    {"STA", "STX", "STY", "INC", "DEC", "PHA", "PHP", "JSR"}

ReadOnlyInstructions == {"CMP", "CPX", "CPY", "BIT"}

\* C38: a call of execute on any instruction other than STA, STX, STY, INC,
\* DEC, PHA, PHP and JSR leaves every memory cell as it was, whether it
\* returns or panics; and resolving the addressing mode writes nothing: a
\* compare or BIT, whose arm writes flags only, leaves A, X, Y and S as they
\* were through every one of its modes, and a store, whose arm writes one
\* cell only, leaves the flags, A, X, Y and S as they were.
C38_MemoryFrame ==
    /\ (last.instruction \in InstructionType \ MemoryWritingInstructions) =>
          cpu.memory = before.memory
    /\ Executed(ReadOnlyInstructions) =>
          cpu.registers = [before.registers EXCEPT !.pc = cpu.registers.pc]
    /\ Executed(StoreInstructions) =>
          /\ cpu.registers = [before.registers EXCEPT !.pc = cpu.registers.pc]
          /\ cpu.flags_register = before.flags_register

\* PLA has pulled a non-zero byte out of a populated stack page
C38_Witness ==
    /\ Executed({"PLA"})
    /\ get_byte(before.memory, StackAddress(before.registers.s)) # 0
    /\ cpu.registers.a = get_byte(before.memory, StackAddress(before.registers.s))
    /\ cpu.registers.a # before.registers.a
    /\ cpu.memory = before.memory

\* the mode the opcode table gives the opcode of the text read, and the two
\* bytes its operand characters spell
TextMode == instruction_map[padded_string(text)[1] \o padded_string(text)[2]][2]
FirstOperandByte == digits_value(SubSeq(padded_string(text), 3, 4))
SecondOperandByte == digits_value(SubSeq(padded_string(text), 5, 6))

\* read has returned an Instruction for a text of hexadecimal digits
Decoded ==
    /\ ReadCalled
    /\ WellFormedHex(text)
    /\ decoded.kind = "Instruction"

IndexOfMode(mode) ==
    CASE mode \in {"ZeroPage,X", "Absolute,X"} -> 1
      [] mode \in {"ZeroPage,Y", "Absolute,Y"} -> 2
      [] OTHER -> 0

\* C39: in the Instruction read returns for a text of hexadecimal digits, an
\* Absolute, Absolute,X, Absolute,Y or Indirect operand is the first operand
\* byte * 256 + the second, a one-byte mode's operand is the first operand
\* byte whatever the second is, and an Implied or Accumulator mode carries
\* neither byte; "AD1234" decodes to LDA Absolute 0x1234.
C39_OperandComposition ==
    Decoded =>
        LET address == decoded.instruction.address
            word == FirstOperandByte * 256 + SecondOperandByte
        IN  /\ TextMode \in {"Absolute", "Absolute,X", "Absolute,Y"} =>
                  address = Absolute(word, IndexOfMode(TextMode))
            /\ TextMode = "Indirect" => address = Indirect(word)
            /\ TextMode = "Immediate" => address = Immediate(FirstOperandByte)
            /\ TextMode \in {"ZeroPage", "ZeroPage,X", "ZeroPage,Y"} =>
                  address = ZeroPage(FirstOperandByte, IndexOfMode(TextMode))
            /\ TextMode = "Relative" => address = Relative(FirstOperandByte)
            /\ TextMode = "(Indirect,X)" => address = IndexedIndirect(FirstOperandByte)
            /\ TextMode = "(Indirect),Y" => address = IndirectIndexed(FirstOperandByte)
            /\ TextMode = "Implied" => address = Implied
            /\ TextMode = "Accumulator" => address = Accumulator
            /\ text = <<"A", "D", "1", "2", "3", "4">> =>
                  decoded.instruction = Instruction("LDA", Absolute(4660, 0))

\* "AD1234" has been decoded to an Absolute operand of 0x12 * 256 + 0x34
C39_Witness ==
    /\ Decoded
    /\ text = <<"A", "D", "1", "2", "3", "4">>
    /\ TextMode = "Absolute"
    /\ FirstOperandByte = 18
    /\ SecondOperandByte = 52
    /\ decoded.instruction.address.operand = 4660

====
